---------------------------- MODULE Spec2Model ----------------------------
(***************************************************************************)
(* Model of consumer.py: a supervisor (main) that provisions the RabbitMQ  *)
(* virtual host, checks the Splunk endpoint, starts config['threads']      *)
(* worker processes (new_process -> RabbitToSplunk.start) and aggregates   *)
(* the counts the workers put on result_queue.  The broker and the HTTP    *)
(* endpoint are the environment: their answers are chosen with \E.         *)
(***************************************************************************)
EXTENDS Integers, Sequences, FiniteSets, TLC

(* ------------------------------ bounds -------------------------------- *)
\* config['threads'] ranges over 1..MaxThreads
MaxThreads == 2
\* messages a producer publishes to the exchange during a run
MaxMsgs == 2
\* length of the JSON list a message body may carry
MaxRecords == 2
\* seconds of wall clock the model follows
MaxTime == 10
\* messages already waiting in the queue when a backlog run starts
Backlog == 11

(* ------------------------ program constants --------------------------- *)
\* channel.basic_qos(prefetch_count=10)
prefetch_count == 10
\* if delta_time >= 5
ReportInterval == 5
\* sys.exit(1)
EXIT_FAILURE == 1

Min(S) == CHOOSE x \in S : \A y \in S : x <= y

RECURSIVE SeqToSet(_)
SeqToSet(s) == IF s = <<>> THEN {} ELSE {Head(s)} \cup SeqToSet(Tail(s))

Procs == 1..MaxThreads
MsgIds == 1..(IF MaxMsgs > Backlog THEN MaxMsgs ELSE Backlog)

\* HTTP status codes the endpoint may answer with.  304 stands for a 3xx
\* reply that requests hands back as the final response (it follows only
\* redirects that carry a Location).
Statuses == {200, 304, 500}

(* --------------------------- JSON values ------------------------------ *)
\* A JSON scalar after json.loads: a str, an int, or a float kept as its
\* whole part and the first six decimals (micros, millionths).
JStr(x) == [t |-> "str", s |-> x, whole |-> 0, micros |-> 0]
JInt(a) == [t |-> "int", s |-> "", whole |-> a, micros |-> 0]
JFloat(a, b) == [t |-> "float", s |-> "", whole |-> a, micros |-> b]

\* The keys of a payload object, in the order they stand in the body.
PayloadKeys == <<"flow_id", "device_time", "device_name", "product_name">>

\* The values a payload may carry under key k.  device_time is a number of
\* milliseconds, with or without a fraction, or a string that is no numeral.
ValuesOf(k) ==
    CASE k = "flow_id" -> {JInt(7)}
      [] k = "device_time" -> {JInt(1500000), JFloat(1500000, 750000), JFloat(1234, 500000), JStr("n/a")}
      [] k = "device_name" -> {JStr("sa-1")}
      [] k = "product_name" -> {JStr("SA")}

\* A payload object: flow_id, and any of the three fields add_event looks for.
Payloads ==
    LET F == ValuesOf("flow_id")
        T == ValuesOf("device_time")
        N == ValuesOf("device_name")
        P == ValuesOf("product_name")
    IN {[flow_id |-> f] : f \in F}
       \cup {[flow_id |-> f, device_time |-> t] : f \in F, t \in T}
       \cup {[flow_id |-> f, device_name |-> n] : f \in F, n \in N}
       \cup {[flow_id |-> f, product_name |-> p] : f \in F, p \in P}
       \cup {[flow_id |-> f, device_time |-> t, device_name |-> n] : f \in F, t \in T, n \in N}
       \cup {[flow_id |-> f, device_time |-> t, product_name |-> p] : f \in F, t \in T, p \in P}
       \cup {[flow_id |-> f, device_name |-> n, product_name |-> p] : f \in F, n \in N, p \in P}
       \cup {[flow_id |-> f, device_time |-> t, device_name |-> n, product_name |-> p] :
                f \in F, t \in T, n \in N, p \in P}

\* The lists of k payload objects.
RECURSIVE PayloadLists(_)
PayloadLists(k) ==
    IF k = 0 THEN {<<>>}
    ELSE {Append(ps, p) : ps \in PayloadLists(k - 1), p \in Payloads}

\* The payload of the messages of the relay runs: every field present.
DefaultPayload ==
    [flow_id |-> JInt(7), device_time |-> JInt(1500000),
     device_name |-> JStr("sa-1"), product_name |-> JStr("SA")]

\* A decoded message body: not JSON at all, one JSON object, or a JSON list
\* of objects.  items holds the objects.
InvalidBody == [kind |-> "invalid", items |-> <<>>]
ObjectBodyOf(p) == [kind |-> "object", items |-> <<p>>]
ListBodyOf(ps) == [kind |-> "list", items |-> ps]
ObjectBody == ObjectBodyOf(DefaultPayload)
RECURSIVE Repeat(_, _)
Repeat(x, k) == IF k = 0 THEN <<>> ELSE Append(Repeat(x, k - 1), x)
ListBody(k) == ListBodyOf(Repeat(DefaultPayload, k))
Bodies == {InvalidBody, ObjectBody, ListBody(MaxRecords)}

\* The bodies of the transformation runs: any object, any list of up to
\* MaxRecords objects, the empty list included.
WrapBodies ==
    {ObjectBodyOf(p) : p \in Payloads}
    \cup {ListBodyOf(ps) : ps \in UNION {PayloadLists(k) : k \in 0..MaxRecords}}

VARIABLES
    threads,        \* config['threads']
    supPc,          \* where main() is
    exitStatus,     \* main's exit status, -1 while it runs
    procNext,       \* items already taken from the process_list map iterator
    started,        \* processes on which p.start() was called
    killed,         \* processes on which main called p.kill()
    joined,         \* processes on which main called p.join()
    prereq,         \* history: "pending", "ok", or the startup step that failed
    topology,       \* broker: vhost, exchange, queue, binding exist
    qos,            \* broker: prefetch limit of each worker's channel (0: none)
    consumers,      \* broker: workers registered with basic_consume
    published,      \* number of messages routed to the queue so far
    body,           \* decoded body of each published message
    ready,          \* broker: messages queued, delivered lowest id first
    unacked,        \* broker: per worker, messages delivered and not acknowledged
    acked,          \* broker: messages acknowledged (removed from the queue)
    pc,             \* where each worker process is
    cause,          \* why each worker process ended, "none" while it has not
    inflight,       \* <<w, m>>: HTTP request of w for m sent, no reply yet
    delivered,      \* history: messages a POST of which was answered 2xx
    delivery_tag,   \* the message rabbit_callback was entered with, 0 outside it
    session_count,  \* local of rabbit_callback
    events,         \* history: the event dicts add_event built for the message
    event_data,     \* local of send_to_splunk: the data of the POST
    result_queue,   \* mp.Queue of (process_num, session_count)
    received,       \* history: how many tuples main took from result_queue, and their sum
    total_msg_count,
    last_total_msg_count,
    total_session_count,
    last_total_session_count,
    last_time,
    clock,          \* int(time.time())
    reports         \* history: the reports printed, <<total, dmsg, dsess, delta>>

supVars == <<threads, supPc, exitStatus, procNext, started, killed, joined, prereq>>
brokerVars == <<topology, qos, consumers, published, body, ready, unacked, acked>>
workerVars == <<pc, cause, inflight, delivered, delivery_tag, session_count,
               events, event_data>>
aggVars == <<result_queue, received, total_msg_count, last_total_msg_count,
             total_session_count, last_total_session_count, last_time, reports>>
vars == <<supVars, brokerVars, workerVars, aggVars, clock>>

Alive(w) == pc[w] \notin {"unstarted", "terminated"}

(* ------------------------------ Init ---------------------------------- *)
NoTopology == [vhost |-> FALSE, exchange |-> FALSE, queue |-> FALSE, binding |-> FALSE]
FullTopology == [vhost |-> TRUE, exchange |-> TRUE, queue |-> TRUE, binding |-> TRUE]

InitCommon ==
    /\ supPc = "get_config"
    /\ exitStatus = -1
    /\ procNext = 0
    /\ started = {}
    /\ killed = {}
    /\ joined = {}
    /\ prereq = "pending"
    /\ qos = [w \in Procs |-> 0]
    /\ consumers = {}
    /\ unacked = [w \in Procs |-> <<>>]
    /\ acked = {}
    /\ pc = [w \in Procs |-> "unstarted"]
    /\ cause = [w \in Procs |-> "none"]
    /\ inflight = {}
    /\ delivered = {}
    /\ delivery_tag = [w \in Procs |-> 0]
    /\ session_count = [w \in Procs |-> 0]
    /\ events = [w \in Procs |-> <<>>]
    /\ event_data = [w \in Procs |-> ""]
    /\ result_queue = <<>>
    /\ received = [msgs |-> 0, sessions |-> 0]
    /\ total_msg_count = 0
    /\ last_total_msg_count = 0
    /\ total_session_count = 0
    /\ last_total_session_count = 0
    /\ last_time = 0
    /\ clock = 0
    /\ reports = <<>>

\* A first launch against a fresh broker: nothing declared, nothing queued.
Init ==
    /\ InitCommon
    /\ threads \in 1..MaxThreads
    /\ topology = NoTopology
    /\ published = 0
    /\ body = [m \in MsgIds |-> InvalidBody]
    /\ ready = {}

(* --------------------------- the broker ------------------------------- *)
\* A producer publishes to the exchange; the message is routed to the queue
\* only when exchange, queue and binding exist (lines 86-95 create them).
PublishFrom(B) ==
    /\ topology.exchange /\ topology.queue /\ topology.binding
    /\ published < MaxMsgs
    /\ \E b \in B :
        /\ published' = published + 1
        /\ body' = [body EXCEPT ![published + 1] = b]
        /\ ready' = ready \cup {published + 1}
    /\ UNCHANGED <<supVars, workerVars, aggVars, clock>>
    /\ UNCHANGED <<topology, qos, consumers, unacked, acked>>

\* The producer of the relay runs sends lists of MaxRecords objects and
\* bodies that are not JSON.
Publish == PublishFrom({InvalidBody, ListBody(MaxRecords)})

\* The broker hands the oldest queued message to a registered consumer whose
\* channel holds fewer unacknowledged messages than its prefetch limit.
Deliver(w) ==
    /\ w \in consumers
    /\ ready # {}
    /\ qos[w] = 0 \/ Len(unacked[w]) < qos[w]
    /\ unacked' = [unacked EXCEPT ![w] = Append(@, Min(ready))]
    /\ ready' = ready \ {Min(ready)}
    /\ UNCHANGED <<supVars, workerVars, aggVars, clock>>
    /\ UNCHANGED <<topology, qos, consumers, published, body, acked>>

\* What the end of a process touches: the process and its channel.
procVars == <<pc, cause, inflight, delivery_tag, session_count,
              events, event_data, qos, consumers, ready, unacked>>

\* The messages the workers of S hold unacknowledged.
HeldBy(S) == UNION {SeqToSet(unacked[w]) : w \in S}

\* The end of the worker processes of S: their connections close, so the
\* broker requeues every message they held unacknowledged and drops their
\* consumers and channels; the locals of the processes are gone.
TerminateAll(S, why) ==
    /\ pc' = [w \in Procs |-> IF w \in S THEN "terminated" ELSE pc[w]]
    /\ cause' = [w \in Procs |-> IF w \in S THEN why ELSE cause[w]]
    /\ inflight' = {x \in inflight : x[1] \notin S}
    /\ delivery_tag' = [w \in Procs |-> IF w \in S THEN 0 ELSE delivery_tag[w]]
    /\ session_count' = [w \in Procs |-> IF w \in S THEN 0 ELSE session_count[w]]
    /\ events' = [w \in Procs |-> IF w \in S THEN <<>> ELSE events[w]]
    /\ event_data' = [w \in Procs |-> IF w \in S THEN "" ELSE event_data[w]]
    /\ qos' = [w \in Procs |-> IF w \in S THEN 0 ELSE qos[w]]
    /\ consumers' = consumers \ S
    /\ ready' = ready \cup HeldBy(S)
    /\ unacked' = [w \in Procs |-> IF w \in S THEN <<>> ELSE unacked[w]]

\* mutant: the exit of one worker takes the other live workers with it
Terminate_group(w, why) == TerminateAll({w} \cup {u \in Procs : Alive(u)}, why)

\* The end of one worker process: sys.exit(1), an uncaught exception or the
\* return from new_process.
Terminate(w, why) == TerminateAll({w}, why)

\* The exit status of a worker process: sys.exit(1) and an uncaught exception
\* give 1, the return after the caught KeyboardInterrupt 0, SIGKILL -9.
wexit(w) ==
    CASE cause[w] = "none" -> -1
      [] cause[w] = "interrupt" -> 0
      [] cause[w] = "killed" -> -9
      [] OTHER -> EXIT_FAILURE

(* ------------------- RabbitToSplunk.start (a worker) ------------------ *)
\* start() from the connection to start_consuming() taken as one step: the
\* calls in program order, stopping at the first one the broker refuses.
\* failAt names that call ("none": all of them succeed).  A refused
\* connection is caught (sys.exit(1)); any other pika exception is not caught
\* and ends the process with a traceback, status 1 as well.
\* mutant: the prefetch limit is never set, the channel stays unlimited
basic_qos_omitted(w) == qos

\* channel.basic_qos(prefetch_count=10): the limit of w's channel
basic_qos(w) == [qos EXCEPT ![w] = prefetch_count]

StartSteps == <<"connecting", "exchange_declare", "queue_declare", "queue_bind">>

start(w) ==
    /\ pc[w] = "connecting"
    /\ \E failAt \in {"none"} \cup SeqToSet(StartSteps) :
        /\ topology' =
              [topology EXCEPT
                 !.exchange = @ \/ failAt \in {"none", "queue_declare", "queue_bind"},
                 !.queue = @ \/ failAt \in {"none", "queue_bind"},
                 !.binding = @ \/ failAt = "none"]
        /\ IF failAt = "none"
           THEN /\ qos' = basic_qos(w)
                /\ consumers' = consumers \cup {w}
                /\ pc' = [pc EXCEPT ![w] = "consuming"]
                /\ UNCHANGED <<cause, inflight, delivery_tag, session_count,
                               events, event_data, ready, unacked>>
           ELSE Terminate(w, "start")
    /\ UNCHANGED <<supVars, aggVars, clock>>
    /\ UNCHANGED <<published, body, acked, delivered>>

(* --------------- rabbit_callback / send_to_splunk --------------------- *)
\* mutant: the parse accepts any body
json_loads_lenient(b) == TRUE

\* json.loads(json_str) raises on a body that is not JSON
json_loads_ok(b) == b.kind # "invalid"

\* json.loads(json_str): the object, or the list of objects
json_loads(b) == IF b.kind = "object" THEN b.items[1] ELSE b.items

\* json_data after "if not isinstance(json_data, list): json_data = [json_data]"
json_data_of(b) == IF b.kind = "list" THEN json_loads(b) ELSE <<json_loads(b)>>

\* mutant: the count returned is that of one wrapped object
len_json_data_one(b) == 1

\* len(json_data) after a non-list was wrapped in a list
len_json_data(b) == Len(json_data_of(b))

\* mutant: the conversion keeps the fraction of device_time
py_int_exact(v) == v

\* int(x) of a number: the fraction is cut off (the numbers here are >= 0)
py_int(v) == JInt(v.whole)

\* int(x) raises ValueError on a string that is no numeral
py_int_raises(v) == v.t = "str"

\* x / 1000: true division, a float
div1000(x) == JFloat(x.whole \div 1000, (x.whole % 1000) * 1000 + x.micros \div 1000)

\* mutant: the host is a fixed name
host_of_fixed(json_data) == JStr("localhost")

\* event['host'] = json_data['device_name']
host_of(json_data) == json_data.device_name

\* add_event up to the dict it builds:
\*   event = {'event': json_data}, then time, host, source for the fields present
event(json_data) ==
    LET keys == {"event"}
                \cup (IF "device_time" \in DOMAIN json_data THEN {"time"} ELSE {})
                \cup (IF "device_name" \in DOMAIN json_data THEN {"host"} ELSE {})
                \cup (IF "product_name" \in DOMAIN json_data THEN {"source"} ELSE {})
    IN [k \in keys |->
          CASE k = "event" -> json_data
            [] k = "time" -> div1000(py_int(json_data.device_time))
            [] k = "host" -> host_of(json_data)
            [] k = "source" -> json_data.product_name]

\* add_event raises when int() cannot convert device_time
add_event_raises(json_data) ==
    "device_time" \in DOMAIN json_data /\ py_int_raises(json_data.device_time)

\* separator.join(strs)
RECURSIVE str_join(_, _)
str_join(sep, strs) ==
    IF strs = <<>> THEN ""
    ELSE IF Len(strs) = 1 THEN Head(strs)
    ELSE Head(strs) \o sep \o str_join(sep, Tail(strs))

\* n written with k digits
RECURSIVE digits(_, _)
digits(n, k) == IF k = 0 THEN "" ELSE digits(n \div 10, k - 1) \o ToString(n % 10)

\* The decimals of a float as repr prints them: the k digits of n without
\* trailing zeros, one digit at least.
RECURSIVE decimals(_, _)
decimals(n, k) == IF k > 1 /\ n % 10 = 0 THEN decimals(n \div 10, k - 1) ELSE digits(n, k)

\* json.dumps of a scalar
dumps_scalar(v) ==
    CASE v.t = "str" -> "\"" \o v.s \o "\""
      [] v.t = "int" -> ToString(v.whole)
      [] v.t = "float" -> ToString(v.whole) \o "." \o decimals(v.micros, 6)

\* f applied to each element of s
MapSeq(f(_), s) == [i \in 1..Len(s) |-> f(s[i])]

\* json.dumps of a payload object: its items in order, ", " and ": " between
dumps_object(obj) ==
    LET item(k) == "\"" \o k \o "\": " \o dumps_scalar(obj[k])
    IN "{" \o str_join(", ", MapSeq(item, SelectSeq(PayloadKeys, LAMBDA k : k \in DOMAIN obj)))
       \o "}"

\* The keys of the event dict in the order add_event inserts them.
EventKeys == <<"event", "time", "host", "source">>

\* json.dumps(event)
json_dumps(ev) ==
    LET item(k) == "\"" \o k \o "\": "
                   \o (IF k = "event" THEN dumps_object(ev[k]) ELSE dumps_scalar(ev[k]))
    IN "{" \o str_join(", ", MapSeq(item, SelectSeq(EventKeys, LAMBDA k : k \in DOMAIN ev)))
       \o "}"

\* add_event: event_str = json.dumps(event)
add_event(json_data) == json_dumps(event(json_data))

\* mutant: the events are joined with a line feed between them
join_lines(event_list) == str_join("\n", event_list)

\* event_data = "".join(event_list)
join(event_list) == str_join("", event_list)

\* reply.raise_for_status(): raises HTTPError for 400 <= status < 600 only
raise_for_status(status) == status >= 400 /\ status < 600

\* reply.ok: True unless raise_for_status() raises
reply_ok(status) == ~raise_for_status(status)

\* The callback is entered with the oldest message the channel holds.
\* send_to_splunk decodes and parses the body, wraps each element with
\* add_event, joins the strings and sends the POST; a body that is not JSON,
\* or a device_time int() cannot convert, raises out of the callback and ends
\* the process (new_process catches KeyboardInterrupt only).
send_to_splunk_post(w) ==
    /\ pc[w] = "consuming"
    /\ unacked[w] # <<>>
    /\ LET m == Head(unacked[w])
           json_data == json_data_of(body[m])
       IN
        IF ~json_loads_ok(body[m])
        THEN Terminate(w, "parse")
        ELSE IF \E i \in 1..Len(json_data) : add_event_raises(json_data[i])
        THEN Terminate(w, "transform")
        ELSE /\ delivery_tag' = [delivery_tag EXCEPT ![w] = m]
             /\ events' = [events EXCEPT ![w] = MapSeq(event, json_data)]
             /\ event_data' = [event_data EXCEPT ![w] = join(MapSeq(add_event, json_data))]
             /\ inflight' = inflight \cup {<<w, m>>}
             /\ pc' = [pc EXCEPT ![w] = "posting"]
             /\ UNCHANGED <<cause, session_count, qos, consumers, ready, unacked>>
    /\ UNCHANGED <<supVars, aggVars, clock>>
    /\ UNCHANGED <<topology, published, body, acked, delivered>>

\* What send_to_splunk does with the reply to session.post, given its status
\* (0: the transport raised instead).  A RequestException, which includes the
\* HTTPError of raise_for_status, is sys.exit(1); so is a reply that is not
\* ok.  Otherwise send_to_splunk returns len(json_data) and the callback goes
\* on to acknowledge.
handle_reply(w, status) ==
    LET m == delivery_tag[w] IN
    IF status = 0 \/ raise_for_status(status) \/ ~reply_ok(status)
    THEN Terminate(w, "delivery")
    ELSE /\ session_count' = [session_count EXCEPT ![w] = len_json_data(body[m])]
         /\ inflight' = inflight \ {<<w, m>>}
         /\ pc' = [pc EXCEPT ![w] = "basic_ack"]
         /\ UNCHANGED <<cause, delivery_tag, events, event_data,
                         qos, consumers, ready, unacked>>

\* The endpoint answers the POST with a status of S (0: the transport fails).
reply_from(w, S) ==
    /\ pc[w] = "posting"
    /\ \E status \in S :
        /\ handle_reply(w, status)
        /\ delivered' = IF status >= 200 /\ status < 300
                        THEN delivered \cup {delivery_tag[w]}
                        ELSE delivered
    /\ UNCHANGED <<supVars, aggVars, clock>>
    /\ UNCHANGED <<topology, published, body, acked>>

send_to_splunk_reply(w) == reply_from(w, Statuses \cup {0})

\* channel.basic_ack(delivery_tag = method.delivery_tag)
basic_ack(w) ==
    /\ pc[w] = "basic_ack"
    /\ LET m == delivery_tag[w] IN
        /\ acked' = acked \cup {m}
        /\ unacked' = [unacked EXCEPT ![w] = SelectSeq(@, LAMBDA x : x # m)]
    /\ pc' = [pc EXCEPT ![w] = "put"]
    /\ UNCHANGED <<supVars, aggVars, clock>>
    /\ UNCHANGED <<topology, published, body, delivered>>
    /\ UNCHANGED <<cause, inflight, delivery_tag, session_count, events, event_data,
                   qos, consumers, ready>>

\* mutant: the tuple is put on result_queue twice
put_twice(w) ==
    /\ pc[w] = "put"
    /\ result_queue' = result_queue \o << <<w, session_count[w]>>, <<w, session_count[w]>> >>
    /\ pc' = [pc EXCEPT ![w] = "consuming"]
    /\ delivery_tag' = [delivery_tag EXCEPT ![w] = 0]
    /\ session_count' = [session_count EXCEPT ![w] = 0]
    /\ events' = [events EXCEPT ![w] = <<>>]
    /\ event_data' = [event_data EXCEPT ![w] = ""]
    /\ UNCHANGED <<supVars, brokerVars, clock>>
    /\ UNCHANGED <<cause, inflight, delivered>>
    /\ UNCHANGED <<received, total_msg_count, last_total_msg_count,
                   total_session_count, last_total_session_count, last_time, reports>>

\* mutant: result_queue holds one tuple at most, put waits while it is full
put_bounded(w) ==
    /\ pc[w] = "put"
    /\ result_queue = <<>>
    /\ result_queue' = Append(result_queue, <<w, session_count[w]>>)
    /\ pc' = [pc EXCEPT ![w] = "consuming"]
    /\ delivery_tag' = [delivery_tag EXCEPT ![w] = 0]
    /\ session_count' = [session_count EXCEPT ![w] = 0]
    /\ events' = [events EXCEPT ![w] = <<>>]
    /\ event_data' = [event_data EXCEPT ![w] = ""]
    /\ UNCHANGED <<supVars, brokerVars, clock>>
    /\ UNCHANGED <<cause, inflight, delivered>>
    /\ UNCHANGED <<received, total_msg_count, last_total_msg_count,
                   total_session_count, last_total_session_count, last_time, reports>>

\* self.result_queue.put((self.process_num, session_count)); the callback
\* returns (its locals are gone) and the worker waits for the next delivery.
put(w) ==
    /\ pc[w] = "put"
    /\ result_queue' = Append(result_queue, <<w, session_count[w]>>)
    /\ pc' = [pc EXCEPT ![w] = "consuming"]
    /\ delivery_tag' = [delivery_tag EXCEPT ![w] = 0]
    /\ session_count' = [session_count EXCEPT ![w] = 0]
    /\ events' = [events EXCEPT ![w] = <<>>]
    /\ event_data' = [event_data EXCEPT ![w] = ""]
    /\ UNCHANGED <<supVars, brokerVars, clock>>
    /\ UNCHANGED <<cause, inflight, delivered>>
    /\ UNCHANGED <<received, total_msg_count, last_total_msg_count,
                   total_session_count, last_total_session_count, last_time, reports>>

\* SIGINT reaches a live worker process (Ctrl+C goes to every process of the
\* foreground group): KeyboardInterrupt is raised, new_process catches it,
\* prints and returns, and the process ends with status 0.
WorkerInterrupt(w) ==
    /\ Alive(w)
    /\ Terminate(w, "interrupt")
    /\ UNCHANGED <<supVars, aggVars, clock>>
    /\ UNCHANGED <<topology, published, body, acked, delivered>>

(* ------------------------------ main ---------------------------------- *)
\* sys.exit(1) in one of the startup steps, before the try block of main
ExitNow(step) ==
    /\ supPc' = "exited"
    /\ exitStatus' = EXIT_FAILURE
    /\ prereq' = step

\* get_config: an unreadable file is sys.exit(1), a missing option raises
get_config ==
    /\ supPc = "get_config"
    /\ \E outcome \in {"ok", "error"} :
        IF outcome = "ok"
        THEN supPc' = "add_vhost" /\ UNCHANGED <<exitStatus, prereq>>
        ELSE ExitNow("get_config")
    /\ UNCHANGED <<threads, procNext, started, killed, joined>>
    /\ UNCHANGED <<brokerVars, workerVars, aggVars, clock>>

\* add_vhost: PUT /api/vhosts/<vhost>; an exception or a reply that is not
\* ok is sys.exit(1)
add_vhost ==
    /\ supPc = "add_vhost"
    /\ \E outcome \in {"ok", "refused", "denied"} :
        IF outcome = "ok"
        THEN /\ topology' = [topology EXCEPT !.vhost = TRUE]
             /\ supPc' = "test_splunk_connection"
             /\ UNCHANGED <<exitStatus, prereq>>
        ELSE /\ ExitNow("add_vhost")
             /\ UNCHANGED topology
    /\ UNCHANGED <<threads, procNext, started, killed, joined>>
    /\ UNCHANGED <<qos, consumers, published, body, ready, unacked, acked>>
    /\ UNCHANGED <<workerVars, aggVars, clock>>

\* mutant: a failed endpoint check is reported but main goes on
test_splunk_connection_goes_on ==
    /\ supPc = "test_splunk_connection"
    /\ \E status \in Statuses \cup {0} :
        /\ prereq' = IF status = 0 \/ status >= 400 THEN "test_splunk_connection" ELSE "ok"
        /\ supPc' = "starting"
        /\ UNCHANGED exitStatus
    /\ UNCHANGED <<threads, procNext, started, killed, joined>>
    /\ UNCHANGED <<brokerVars, workerVars, aggVars, clock>>

\* test_splunk_connection: a transport exception (status 0), or a status for
\* which raise_for_status raises, is sys.exit(1)
test_splunk_connection ==
    /\ supPc = "test_splunk_connection"
    /\ \E status \in Statuses \cup {0} :
        IF status = 0 \/ raise_for_status(status)
        THEN ExitNow("test_splunk_connection")
        ELSE supPc' = "starting" /\ prereq' = "ok" /\ UNCHANGED exitStatus
    /\ UNCHANGED <<threads, procNext, started, killed, joined>>
    /\ UNCHANGED <<brokerVars, workerVars, aggVars, clock>>

\* for p in process_list: p.start() -- process_list is a map object, an
\* iterator: each item is built when the loop takes it and is gone afterwards.
p_start ==
    /\ supPc = "starting"
    /\ procNext < threads
    /\ procNext' = procNext + 1
    /\ started' = started \cup {procNext + 1}
    /\ pc' = [pc EXCEPT ![procNext + 1] = "connecting"]
    /\ UNCHANGED <<threads, supPc, exitStatus, killed, joined, prereq>>
    /\ UNCHANGED <<brokerVars, aggVars, clock>>
    /\ UNCHANGED <<cause, inflight, delivered, delivery_tag, session_count,
                   events, event_data>>

\* The start loop is over: the counters are set and the receive loop begins.
enter_loop ==
    /\ supPc = "starting"
    /\ procNext = threads
    /\ supPc' = "loop"
    /\ total_msg_count' = 0
    /\ last_total_msg_count' = 0
    /\ total_session_count' = 0
    /\ last_total_session_count' = 0
    /\ last_time' = clock
    /\ UNCHANGED <<threads, exitStatus, procNext, started, killed, joined, prereq>>
    /\ UNCHANGED <<brokerVars, workerVars, clock>>
    /\ UNCHANGED <<result_queue, received, reports>>

\* mutant: the report does not move last_time, the start of the rate window
result_queue_get_keeps_window ==
    /\ supPc = "loop"
    /\ result_queue # <<>>
    /\ LET item == Head(result_queue)
           msgs == total_msg_count + 1
           sessions == total_session_count + item[2]
           delta_time == clock - last_time
       IN
        /\ result_queue' = Tail(result_queue)
        /\ received' = [msgs |-> received.msgs + 1,
                        sessions |-> received.sessions + item[2]]
        /\ total_msg_count' = msgs
        /\ total_session_count' = sessions
        /\ IF delta_time >= ReportInterval
           THEN /\ reports' = Append(reports,
                        <<msgs, msgs - last_total_msg_count,
                          sessions - last_total_session_count, delta_time>>)
                /\ last_total_msg_count' = msgs
                /\ last_total_session_count' = sessions
                /\ UNCHANGED last_time
           ELSE UNCHANGED <<reports, last_time, last_total_msg_count,
                            last_total_session_count>>
    /\ UNCHANGED <<supVars, brokerVars, workerVars, clock>>

\* mutant: the report starts the totals again from zero
result_queue_get_resets_totals ==
    /\ supPc = "loop"
    /\ result_queue # <<>>
    /\ LET item == Head(result_queue)
           msgs == total_msg_count + 1
           sessions == total_session_count + item[2]
           delta_time == clock - last_time
       IN
        /\ result_queue' = Tail(result_queue)
        /\ received' = [msgs |-> received.msgs + 1,
                        sessions |-> received.sessions + item[2]]
        /\ IF delta_time >= ReportInterval
           THEN /\ reports' = Append(reports,
                        <<msgs, msgs - last_total_msg_count,
                          sessions - last_total_session_count, delta_time>>)
                /\ last_time' = clock
                /\ total_msg_count' = 0
                /\ total_session_count' = 0
                /\ last_total_msg_count' = 0
                /\ last_total_session_count' = 0
           ELSE /\ total_msg_count' = msgs
                /\ total_session_count' = sessions
                /\ UNCHANGED <<reports, last_time, last_total_msg_count,
                               last_total_session_count>>
    /\ UNCHANGED <<supVars, brokerVars, workerVars, clock>>

\* mutant: get() gives up once every worker has ended and nothing is queued,
\* and main leaves with status 1
result_queue_get_notices ==
    /\ supPc = "loop"
    /\ IF result_queue = <<>>
       THEN /\ \A p \in started : pc[p] = "terminated"
            /\ supPc' = "exiting"
            /\ exitStatus' = EXIT_FAILURE
            /\ UNCHANGED <<threads, procNext, started, killed, joined, prereq>>
            /\ UNCHANGED aggVars
       ELSE LET item == Head(result_queue)
                msgs == total_msg_count + 1
                sessions == total_session_count + item[2]
                delta_time == clock - last_time
            IN
             /\ result_queue' = Tail(result_queue)
             /\ received' = [msgs |-> received.msgs + 1,
                             sessions |-> received.sessions + item[2]]
             /\ total_msg_count' = msgs
             /\ total_session_count' = sessions
             /\ IF delta_time >= ReportInterval
                THEN /\ reports' = Append(reports,
                             <<msgs, msgs - last_total_msg_count,
                               sessions - last_total_session_count, delta_time>>)
                     /\ last_time' = clock
                     /\ last_total_msg_count' = msgs
                     /\ last_total_session_count' = sessions
                ELSE UNCHANGED <<reports, last_time, last_total_msg_count,
                                 last_total_session_count>>
             /\ UNCHANGED supVars
    /\ UNCHANGED <<brokerVars, workerVars, clock>>

\* One pass of the while True loop: result_queue.get() returns a tuple, the
\* totals grow, and a report is printed when at least 5 s have passed.
result_queue_get ==
    /\ supPc = "loop"
    /\ result_queue # <<>>
    /\ LET item == Head(result_queue)
           msgs == total_msg_count + 1
           sessions == total_session_count + item[2]
           now == clock
           delta_time == now - last_time
       IN
        /\ result_queue' = Tail(result_queue)
        /\ received' = [msgs |-> received.msgs + 1,
                        sessions |-> received.sessions + item[2]]
        /\ total_msg_count' = msgs
        /\ total_session_count' = sessions
        /\ IF delta_time >= ReportInterval
           THEN /\ reports' = Append(reports,
                        <<msgs, msgs - last_total_msg_count,
                          sessions - last_total_session_count, delta_time>>)
                /\ last_time' = now
                /\ last_total_msg_count' = msgs
                /\ last_total_session_count' = sessions
           ELSE UNCHANGED <<reports, last_time, last_total_msg_count,
                            last_total_session_count>>
    /\ UNCHANGED <<supVars, brokerVars, workerVars, clock>>

\* What iterating process_list yields when the handler runs: the items the
\* start loop has not taken.  The processes already started are not yielded
\* again.
process_list_rest == (procNext + 1)..threads

\* The processes the handler's loop kills and joins: it goes through what
\* process_list yields and stops at the first Process that was never
\* started, on which kill() raises AttributeError.
handler_kills ==
    {p \in process_list_rest :
        \A q \in process_list_rest : q <= p => q \in started}

\* SIGINT reaches main inside the try block:
\*   except KeyboardInterrupt: for p in process_list: p.kill(); p.join()
\*   sys.exit(1)
\* Whether the loop ends or raises, main leaves with status 1.
KeyboardInterrupt ==
    /\ supPc \in {"starting", "loop"}
    /\ killed' = killed \cup handler_kills
    /\ joined' = joined \cup handler_kills
    /\ procNext' = IF handler_kills = process_list_rest
                   THEN threads
                   ELSE procNext + Cardinality(handler_kills) + 1
    /\ IF handler_kills = {}
       THEN UNCHANGED procVars
       ELSE TerminateAll(handler_kills, "killed")
    /\ supPc' = "exiting"
    /\ exitStatus' = EXIT_FAILURE
    /\ UNCHANGED <<threads, started, prereq>>
    /\ UNCHANGED <<topology, published, body, acked, delivered>>
    /\ UNCHANGED <<aggVars, clock>>

\* The interpreter leaves after sys.exit(1): multiprocessing waits at exit for
\* the child processes that are not daemons, so main is gone only when every
\* process it started has ended.
sys_exit ==
    /\ supPc = "exiting"
    /\ \A p \in started : pc[p] = "terminated"
    /\ supPc' = "exited"
    /\ UNCHANGED <<threads, exitStatus, procNext, started, killed, joined, prereq>>
    /\ UNCHANGED <<brokerVars, workerVars, aggVars, clock>>

\* A second of wall clock passes.
Tick ==
    /\ clock < MaxTime
    /\ clock' = clock + 1
    /\ UNCHANGED <<supVars, brokerVars, workerVars, aggVars>>

\* The relay: every operation of the program, start() taken as one step,
\* within one second of wall clock.
Next ==
    \/ get_config
    \/ add_vhost
    \/ test_splunk_connection
    \/ p_start
    \/ enter_loop
    \/ result_queue_get
    \/ KeyboardInterrupt
    \/ sys_exit
    \/ Publish
    \/ \E w \in Procs :
        \/ start(w)
        \/ Deliver(w)
        \/ send_to_splunk_post(w)
        \/ send_to_splunk_reply(w)
        \/ basic_ack(w)
        \/ put(w)
        \/ WorkerInterrupt(w)

Spec == Init /\ [][Next]_vars

(* ------------------------ runs with a backlog ------------------------- *)
\* A launch with one worker against a broker an earlier launch has
\* provisioned, with Backlog messages waiting in the queue: JSON lists, the
\* last one not JSON.
InitFlow ==
    /\ InitCommon
    /\ threads = 1
    /\ topology = FullTopology
    /\ published = Backlog
    /\ body = [m \in MsgIds |-> IF m < Backlog THEN ListBody(MaxRecords) ELSE InvalidBody]
    /\ ready = 1..Backlog

\* In these runs the endpoint accepts the POST, answers 500, or the
\* transport fails.
send_to_splunk_reply_flow(w) == reply_from(w, {0, 200, 500})

\* The relay with no producer: the backlog is all there is to consume.
NextFlow ==
    \/ get_config
    \/ add_vhost
    \/ test_splunk_connection
    \/ p_start
    \/ enter_loop
    \/ result_queue_get
    \/ KeyboardInterrupt
    \/ sys_exit
    \/ \E w \in Procs :
        \/ start(w)
        \/ Deliver(w)
        \/ send_to_splunk_post(w)
        \/ send_to_splunk_reply_flow(w)
        \/ basic_ack(w)
        \/ put(w)
        \/ WorkerInterrupt(w)

SpecFlow == InitFlow /\ [][NextFlow]_vars

(* ------------------- start() call by call ----------------------------- *)
\* mutant: the broker refuses to declare what exists already
declare_accepts_new_only(exists) == ~exists

\* The broker's answer to exchange_declare, queue_declare and queue_bind: a
\* declaration of what exists already with the same arguments is accepted and
\* changes nothing (every worker passes the arguments of the one config).
declare_accepts(exists) == TRUE

\* One call of start() on the channel, from place `from` to place `to`:
\* accepted, it leaves the topology as `declared`; refused, the channel
\* exception is not caught and ends the process.
channel_call(w, from, to, accepted, declared) ==
    /\ pc[w] = from
    /\ IF accepted
       THEN /\ topology' = declared
            /\ pc' = [pc EXCEPT ![w] = to]
            /\ UNCHANGED <<cause, inflight, delivery_tag, session_count,
                           events, event_data, qos, consumers, ready, unacked>>
       ELSE /\ Terminate(w, "declare")
            /\ UNCHANGED topology
    /\ UNCHANGED <<supVars, aggVars, clock>>
    /\ UNCHANGED <<published, body, acked, delivered>>

\* pika.BlockingConnection(...); connection.channel(): a refused connection
\* is sys.exit(1)
connect(w) ==
    /\ pc[w] = "connecting"
    /\ \E refused \in BOOLEAN :
        IF refused
        THEN Terminate(w, "start")
        ELSE /\ pc' = [pc EXCEPT ![w] = "exchange_declare"]
             /\ UNCHANGED <<cause, inflight, delivery_tag, session_count,
                            events, event_data, qos, consumers, ready, unacked>>
    /\ UNCHANGED <<supVars, aggVars, clock>>
    /\ UNCHANGED <<topology, published, body, acked, delivered>>

\* channel.exchange_declare(exchange=exchange, durable=True)
exchange_declare(w) ==
    channel_call(w, "exchange_declare", "queue_declare",
                 declare_accepts(topology.exchange),
                 [topology EXCEPT !.exchange = TRUE])

\* channel.queue_declare(queue=queue)
queue_declare(w) ==
    channel_call(w, "queue_declare", "queue_bind",
                 declare_accepts(topology.queue),
                 [topology EXCEPT !.queue = TRUE])

\* channel.queue_bind(queue=queue, exchange=exchange, routing_key="")
queue_bind(w) ==
    channel_call(w, "queue_bind", "basic_qos",
                 declare_accepts(topology.binding),
                 [topology EXCEPT !.binding = TRUE])

\* channel.basic_qos(prefetch_count=10); channel.basic_consume(...);
\* channel.start_consuming()
basic_consume(w) ==
    /\ pc[w] = "basic_qos"
    /\ qos' = basic_qos(w)
    /\ consumers' = consumers \cup {w}
    /\ pc' = [pc EXCEPT ![w] = "consuming"]
    /\ UNCHANGED <<cause, inflight, delivery_tag, session_count,
                   events, event_data, ready, unacked>>
    /\ UNCHANGED <<supVars, aggVars, clock>>
    /\ UNCHANGED <<topology, published, body, acked, delivered>>

\* The relay with start() followed call by call, against a broker that stays
\* up once it has accepted the connection.
NextDecl ==
    \/ get_config
    \/ add_vhost
    \/ test_splunk_connection
    \/ p_start
    \/ enter_loop
    \/ result_queue_get
    \/ KeyboardInterrupt
    \/ sys_exit
    \/ Publish
    \/ \E w \in Procs :
        \/ connect(w)
        \/ exchange_declare(w)
        \/ queue_declare(w)
        \/ queue_bind(w)
        \/ basic_consume(w)
        \/ Deliver(w)
        \/ send_to_splunk_post(w)
        \/ send_to_splunk_reply(w)
        \/ basic_ack(w)
        \/ put(w)
        \/ WorkerInterrupt(w)

SpecDecl == Init /\ [][NextDecl]_vars

(* -------------------- runs of the transformation ---------------------- *)
\* A launch with one worker against a provisioned broker with one message
\* waiting, its body any object or list of objects.
InitWrap ==
    /\ InitCommon
    /\ threads = 1
    /\ topology = FullTopology
    /\ published = 1
    /\ \E b \in WrapBodies : body = [m \in MsgIds |-> IF m = 1 THEN b ELSE InvalidBody]
    /\ ready = {1}

SpecWrap == InitWrap /\ [][NextFlow]_vars

(* ------------------- runs that follow the clock ----------------------- *)
\* A first launch with one worker.
InitAgg ==
    /\ InitCommon
    /\ threads = 1
    /\ topology = NoTopology
    /\ published = 0
    /\ body = [m \in MsgIds |-> InvalidBody]
    /\ ready = {}

\* The producer of these runs sends single objects as well.
PublishAny == PublishFrom(Bodies)

\* The relay while wall-clock time passes.
NextAgg ==
    \/ get_config
    \/ add_vhost
    \/ test_splunk_connection
    \/ p_start
    \/ enter_loop
    \/ result_queue_get
    \/ KeyboardInterrupt
    \/ sys_exit
    \/ PublishAny
    \/ Tick
    \/ \E w \in Procs :
        \/ start(w)
        \/ Deliver(w)
        \/ send_to_splunk_post(w)
        \/ send_to_splunk_reply(w)
        \/ basic_ack(w)
        \/ put(w)
        \/ WorkerInterrupt(w)

SpecAgg == InitAgg /\ [][NextAgg]_vars

(* ------------------------------ claims -------------------------------- *)
Published == 1..published

\* The body of message m is not JSON.
C3_NotJson(m) == body[m] = InvalidBody

\* The messages of which worker w has a request in flight.
C6_InFlightOf(w) == {m \in MsgIds : <<w, m>> \in inflight}

\* The messages worker w holds besides the one its callback was entered with.
C6_Buffered(w) == {m \in SeqToSet(unacked[w]) : m # delivery_tag[w]}

\* C1: a worker acknowledges a message only after the POST of that message
\* was answered 2xx: every acknowledged message, and every message a worker
\* is about to acknowledge, has had a 2xx reply.
C1_AckOnlyAfter2xx ==
    /\ acked \subseteq delivered
    /\ \A w \in Procs : pc[w] = "basic_ack" => delivery_tag[w] \in delivered

\* C2: every message published to the queue is still held by the broker
\* (queued, or delivered to a worker and not acknowledged) or has been posted
\* with a 2xx reply.
C2_NoMessageLost ==
    \A m \in Published : m \in ready \/ m \in HeldBy(Procs) \/ m \in delivered

\* C3: for a message whose body is not JSON no POST is ever in flight, none is
\* answered, the message is never acknowledged and no callback gets past the
\* parse with it; the worker that parses it ends in that step, with no new
\* request, acknowledgment or tuple on result_queue; an ended worker stays
\* ended.
C3_ParseFailureIsFatal ==
    /\ [](\A m \in Published : C3_NotJson(m) =>
            /\ m \notin acked
            /\ m \notin delivered
            /\ \A w \in Procs : <<w, m>> \notin inflight /\ delivery_tag[w] # m)
    /\ [][\A w \in Procs :
            /\ (/\ pc[w] = "consuming"
                /\ unacked[w] # <<>>
                /\ C3_NotJson(Head(unacked[w]))
                /\ pc'[w] # pc[w])
               => /\ pc'[w] = "terminated"
                  /\ inflight' \subseteq inflight
                  /\ acked' = acked
                  /\ result_queue' = result_queue
            /\ pc[w] = "terminated" => pc'[w] = "terminated"]_vars

C3_Witness ==
    \E w \in Procs, m \in Published :
        /\ cause[w] = "parse"
        /\ C3_NotJson(m)
        /\ m \in ready

\* C4: once main has taken the interrupt after starting its workers and is
\* leaving, it has killed and joined every process it started, and its exit
\* status is not 0.
C4_InterruptKillsAndJoins ==
    (supPc \in {"exiting", "exited"} /\ started = 1..threads)
        => /\ killed = started
           /\ joined = started
           /\ exitStatus # 0

\* C5: the step in which a worker ends on a parse or delivery failure leaves
\* every other worker as it was (its place in the code, its channel, the
\* messages it holds, its request in flight), removes no acknowledgment, and
\* puts the messages the ended worker held back on the queue; acknowledged
\* messages stay acknowledged in every step.
C5_SiblingsUnaffected ==
    [][/\ acked \subseteq acked'
       /\ \A w \in Procs :
            (cause[w] = "none" /\ cause'[w] \in {"parse", "delivery"})
            => /\ \A u \in Procs \ {w} :
                    /\ pc'[u] = pc[u]
                    /\ cause'[u] = cause[u]
                    /\ unacked'[u] = unacked[u]
                    /\ qos'[u] = qos[u]
                    /\ (u \in consumers') = (u \in consumers)
                    /\ delivery_tag'[u] = delivery_tag[u]
                    /\ session_count'[u] = session_count[u]
                    /\ (\A m \in MsgIds : (<<u, m>> \in inflight') = (<<u, m>> \in inflight))
               /\ acked' = acked
               /\ HeldBy({w}) \subseteq ready'
               /\ result_queue' = result_queue]_vars

\* One worker ended on a delivery failure, and every message is acknowledged
\* all the same: the other worker took over what the ended one held and has
\* just acknowledged the last of them.
C5_Witness ==
    \E w \in Procs, u \in Procs :
        /\ u # w
        /\ cause[w] = "delivery"
        /\ published = MaxMsgs
        /\ acked = Published
        /\ pc[u] = "put"

\* C6: the broker never has more than prefetch_count unacknowledged messages
\* out at one worker; a worker has at most one request in flight, for the
\* message its callback was entered with; while a callback runs, the other
\* messages the worker holds are at most prefetch_count - 1.
C6_PrefetchBound ==
    \A w \in Procs :
        /\ Len(unacked[w]) <= prefetch_count
        /\ Cardinality(C6_InFlightOf(w)) <= 1
        /\ C6_InFlightOf(w) \subseteq {delivery_tag[w]}
        /\ pc[w] \in {"posting", "basic_ack"} =>
              Cardinality(C6_Buffered(w)) <= prefetch_count - 1

C6_Witness ==
    \E w \in Procs :
        /\ pc[w] = "posting"
        /\ Len(unacked[w]) = prefetch_count
        /\ Cardinality(C6_Buffered(w)) = prefetch_count - 1
        /\ ready # {}

\* C7: no step acknowledges a message that has not had a 2xx reply, and the
\* step in which a worker stops (interrupt, kill or failure) acknowledges
\* nothing and puts every message the worker held, the one in flight
\* included, back on the queue.
C7_ShutdownAcksOnlyDelivered ==
    [][/\ \A m \in acked' \ acked : m \in delivered
       /\ \A w \in Procs :
            (Alive(w) /\ pc'[w] = "terminated")
            => /\ acked' = acked
               /\ HeldBy({w}) \subseteq ready']_vars

\* C8 as claimed: a report is due as soon as 5 s have passed since the last
\* one, with or without a tuple to receive: while main waits on an empty
\* result_queue, the time since the last report never goes past 5 s.
C8_ReportEveryInterval ==
    (supPc = "loop" /\ result_queue = <<>>) => clock - last_time <= ReportInterval

\* C8 as amended: a report is printed exactly in the passes of the loop that
\* receive a tuple when at least 5 whole seconds have passed since the last
\* report (or since the loop began); it carries the messages and records
\* since the last report and the seconds passed, and the window starts again
\* from the current time and totals.  No tuple received, no report.
C8_ReportOnReceive ==
    [][/\ (supPc = "loop" /\ received' # received) =>
            IF clock - last_time >= ReportInterval
            THEN /\ reports' = Append(reports,
                        <<total_msg_count', total_msg_count' - last_total_msg_count,
                          total_session_count' - last_total_session_count,
                          clock - last_time>>)
                 /\ last_time' = clock
                 /\ last_total_msg_count' = total_msg_count'
                 /\ last_total_session_count' = total_session_count'
            ELSE UNCHANGED <<reports, last_time, last_total_msg_count,
                             last_total_session_count>>
       /\ received' = received =>
            /\ reports' = reports
            /\ supPc = "loop" => UNCHANGED <<last_time, last_total_msg_count,
                                             last_total_session_count>>]_vars

C8_Witness ==
    /\ Len(reports) = 2
    /\ reports[2][4] >= ReportInterval
    /\ last_time = clock

\* C9: the totals are the number of tuples received and the sum of their
\* counts, never more than the workers acknowledged; no step lowers them; a
\* pass that prints a report adds the received tuple to the totals as any
\* other pass does and moves only last_time and the last totals, to the
\* current time and totals.
C9_TotalsNeverReset ==
    /\ [](/\ total_msg_count = received.msgs
          /\ total_session_count = received.sessions
          /\ total_msg_count + Len(result_queue) <= Cardinality(acked))
    /\ [][/\ total_msg_count' >= total_msg_count
          /\ total_session_count' >= total_session_count
          /\ reports' # reports =>
                /\ total_msg_count' = total_msg_count + 1
                /\ total_session_count' = total_session_count + Head(result_queue)[2]
                /\ last_time' = clock
                /\ last_total_msg_count' = total_msg_count'
                /\ last_total_session_count' = total_session_count']_vars

C9_Witness ==
    /\ Len(reports) >= 1
    /\ total_msg_count = 2
    /\ total_session_count = 1 + MaxRecords
    /\ last_total_msg_count = 1

\* C10 as claimed: no worker is started before the topology is complete, and
\* a broker refusal or denial during provisioning happens with no worker
\* started.
C10_ProvisionedBeforeWorkers ==
    /\ started # {} => (topology.exchange /\ topology.queue /\ topology.binding)
    /\ (\E w \in Procs : cause[w] = "start") => started = {}

\* C10 as amended: a failure of get_config, of add_vhost or of the endpoint
\* check ends main with status 1 and no worker started, and a worker is
\* started only after the three succeeded (the virtual host exists); the
\* exchange, queue and binding are declared by each worker after it was
\* started, and a broker refusal there ends that worker with status 1.
C10_PrereqFailureBeforeStart ==
    /\ prereq \notin {"pending", "ok"}
        => (supPc = "exited" /\ exitStatus = EXIT_FAILURE /\ started = {})
    /\ started # {} => (prereq = "ok" /\ topology.vhost)
    /\ (topology.exchange \/ topology.queue \/ topology.binding) => started # {}
    /\ \A w \in Procs : cause[w] = "start" => (w \in started /\ wexit(w) = EXIT_FAILURE)

C10_Witness ==
    /\ prereq = "test_splunk_connection"
    /\ supPc = "exited"
    /\ topology.vhost

\* The objects of the body of the message worker w is working on, in the
\* body's order.
C11_Objects(w) == body[delivery_tag[w]].items

\* The number of JSON objects in body b: 1 for an object, N for a list of N.
C11_Count(b) == IF b.kind = "object" THEN 1 ELSE Len(b.items)

\* C11: while a worker works on a message (request sent, acknowledging,
\* emitting), its batch has one record per object of the body, in the body's
\* order; the count the delivery step returned is the number of objects, and
\* the tuple the worker puts on result_queue carries that number.
C11_BatchSizeIsObjectCount ==
    /\ [](\A w \in Procs :
            /\ pc[w] \in {"posting", "basic_ack", "put"} =>
                  /\ Len(events[w]) = C11_Count(body[delivery_tag[w]])
                  /\ \A i \in 1..Len(events[w]) : events[w][i].event = C11_Objects(w)[i]
            /\ pc[w] \in {"basic_ack", "put"} =>
                  session_count[w] = C11_Count(body[delivery_tag[w]]))
    /\ [][\A w \in Procs :
            (pc[w] = "put" /\ pc'[w] = "consuming") =>
               result_queue' = Append(result_queue,
                                      <<w, C11_Count(body[delivery_tag[w]])>>)]_vars

\* A list of MaxRecords objects was posted and acknowledged, and the tuple on
\* result_queue carries MaxRecords.
C11_Witness ==
    /\ body[1].kind = "list"
    /\ Len(body[1].items) = MaxRecords
    /\ 1 \in acked
    /\ result_queue = <<<<1, MaxRecords>>>>

\* C12: every record of a batch has the payload, unchanged, as its event; it
\* has time, host, source exactly when the payload has device_time,
\* device_name, product_name; host is device_name and source is
\* product_name; it has no other field.
C12_DerivedFieldsFollowPayload ==
    \A w \in Procs : \A i \in 1..Len(events[w]) :
        LET payload == C11_Objects(w)[i]
            record == events[w][i]
        IN /\ DOMAIN record \subseteq {"event", "time", "host", "source"}
           /\ "event" \in DOMAIN record
           /\ record.event = payload
           /\ ("time" \in DOMAIN record) = ("device_time" \in DOMAIN payload)
           /\ ("host" \in DOMAIN record) = ("device_name" \in DOMAIN payload)
           /\ ("source" \in DOMAIN record) = ("product_name" \in DOMAIN payload)
           /\ "host" \in DOMAIN record => record.host = payload.device_name
           /\ "source" \in DOMAIN record => record.source = payload.product_name

\* A posted batch with a record of a payload that has device_time and
\* product_name and lacks device_name, and a record of a payload that has
\* device_name.
C12_Witness ==
    \E w \in Procs : \E i, j \in 1..Len(events[w]) :
        /\ pc[w] = "posting"
        /\ DOMAIN events[w][i] = {"event", "time", "source"}
        /\ "device_name" \notin DOMAIN events[w][i].event
        /\ "host" \in DOMAIN events[w][j]

\* The number v divided by 1000, to six decimals.
C13_Quotient(v) ==
    JFloat(v.whole \div 1000, (v.whole % 1000) * 1000 + v.micros \div 1000)

\* C13 as claimed: the time of a record is the value of device_time divided
\* by 1000, the fraction of device_time included.
C13_TimeIsDeviceTimeOver1000 ==
    \A w \in Procs : \A i \in 1..Len(events[w]) :
        "time" \in DOMAIN events[w][i] =>
            events[w][i].time = C13_Quotient(C11_Objects(w)[i].device_time)

\* C13 as amended: the time of a record is the whole part of device_time (its
\* fraction cut off) divided by 1000; device_time = 1500000 gives 1500.0, and
\* so does 1500000.75.
C13_TimeIsWholeMillisOver1000 ==
    \A w \in Procs : \A i \in 1..Len(events[w]) :
        LET device_time == C11_Objects(w)[i].device_time
            record == events[w][i]
        IN "time" \in DOMAIN record =>
            /\ record.time = C13_Quotient(JInt(device_time.whole))
            /\ device_time.whole = 1500000 =>
                  (record.time = JFloat(1500, 0) /\ dumps_scalar(record.time) = "1500.0")

\* A posted record of a payload whose device_time is 1500000.75: its time is
\* 1500.0.
C13_Witness ==
    \E w \in Procs : \E i \in 1..Len(events[w]) :
        /\ pc[w] = "posting"
        /\ C11_Objects(w)[i].device_time = JFloat(1500000, 750000)
        /\ events[w][i].time = JFloat(1500, 0)

\* The strings of strs one after the other.
RECURSIVE C14_Concat(_)
C14_Concat(strs) == IF strs = <<>> THEN "" ELSE Head(strs) \o C14_Concat(Tail(strs))

\* C14: the data of a request in flight is the serialized records of the
\* batch one after the other in batch order and nothing else: the one
\* serialized record for a batch of one, the empty string for an empty list.
C14_BodyIsConcatenation ==
    \A w \in Procs :
        pc[w] = "posting" =>
            /\ event_data[w] = C14_Concat(MapSeq(json_dumps, events[w]))
            /\ Len(events[w]) = 1 => event_data[w] = json_dumps(events[w][1])
            /\ Len(events[w]) = 0 => event_data[w] = ""

\* A request in flight for a batch of MaxRecords records that differ.
C14_Witness ==
    \E w \in Procs :
        /\ pc[w] = "posting"
        /\ Len(events[w]) = MaxRecords
        /\ \E i, j \in 1..Len(events[w]) : events[w][i] # events[w][j]
        /\ Len(event_data[w]) > Len(json_dumps(events[w][1]))

\* C15: no declaration of a worker is refused, however the calls of the
\* workers interleave; a declaration of what exists already changes nothing
\* at the broker (topology, queued and unacknowledged messages, consumers);
\* once a worker has made its three declarations the topology is the
\* exchange, the queue and the binding, as after one worker alone; every
\* consumer's channel has the prefetch limit.
C15_DeclarationIdempotent ==
    /\ [](/\ \A w \in Procs : cause[w] # "declare"
          /\ (\E w \in Procs : pc[w] = "basic_qos" \/ w \in consumers)
                => topology = FullTopology
          /\ \A w \in consumers : qos[w] = prefetch_count)
    /\ [][\A w \in Procs :
            \/ (/\ pc[w] = "exchange_declare" /\ topology.exchange)
            \/ (/\ pc[w] = "queue_declare" /\ topology.queue)
            \/ (/\ pc[w] = "queue_bind" /\ topology.binding)
            => (pc'[w] # pc[w] =>
                  /\ Alive(w) /\ pc'[w] # "terminated" => cause'[w] = "none"
                  /\ UNCHANGED <<topology, published, body, acked>>
                  /\ pc'[w] # "terminated" =>
                        UNCHANGED <<ready, unacked, consumers, qos>>)]_vars

\* Two workers have made all their declarations against the same broker, one
\* after or amid the other's, and both consume; a message is queued.
C15_Witness ==
    \E w \in Procs, u \in Procs :
        /\ w # u
        /\ {w, u} \subseteq consumers
        /\ topology = FullTopology
        /\ published > 0

\* The places of a worker, and the moves between them that the state machine
\* Connecting -> Subscribed -> Processing -> Subscribed ... -> Terminated
\* allows: Processing is posting, then basic_ack, then put.
C16_Moves ==
    {<<"unstarted", "connecting">>, <<"connecting", "consuming">>,
     <<"consuming", "posting">>, <<"posting", "basic_ack">>,
     <<"basic_ack", "put">>, <<"put", "consuming">>}
    \cup {<<from, "terminated">> :
            from \in {"connecting", "consuming", "posting", "basic_ack", "put"}}

\* The tuples the one worker of a run has put on result_queue so far.
C16_Emitted == received.msgs + Len(result_queue)

\* C16: a worker moves only along the state machine; the request is sent on
\* entering posting, the acknowledgment is the move from basic_ack to put,
\* the tuple is put in the move from put back to consuming, and no other move
\* acknowledges or puts; a terminated worker stays terminated, holds no
\* message, has no request in flight and is no consumer.  With one worker,
\* the tuples it has put are as many as the messages it has acknowledged, or
\* one less, and one less exactly when it acknowledged and has not put (it is
\* at put, or it ended there).
C16_WorkerStateMachine ==
    /\ [](/\ \A w \in Procs :
               pc[w] = "terminated" =>
                  /\ unacked[w] = <<>>
                  /\ w \notin consumers
                  /\ \A m \in MsgIds : <<w, m>> \notin inflight
          /\ threads = 1 =>
               /\ Cardinality(acked) - C16_Emitted \in {0, 1}
               /\ pc[1] = "put" => Cardinality(acked) = C16_Emitted + 1
               /\ pc[1] \in {"consuming", "posting", "basic_ack"} =>
                     Cardinality(acked) = C16_Emitted)
    /\ [][/\ \A w \in Procs :
               /\ pc'[w] # pc[w] => <<pc[w], pc'[w]>> \in C16_Moves
               /\ pc[w] = "terminated" => pc'[w] = "terminated"
               /\ (pc[w] = "consuming" /\ pc'[w] = "posting") =>
                     (<<w, delivery_tag'[w]>> \in inflight' /\ acked' = acked
                      /\ result_queue' = result_queue)
               /\ (pc[w] = "basic_ack" /\ pc'[w] = "put") =>
                     (acked' = acked \cup {delivery_tag[w]} /\ delivery_tag[w] \notin acked
                      /\ result_queue' = result_queue)
               /\ (pc[w] = "put" /\ pc'[w] = "consuming") =>
                     (Len(result_queue') = Len(result_queue) + 1 /\ acked' = acked)
          /\ acked' # acked => \E w \in Procs : pc[w] = "basic_ack" /\ pc'[w] = "put"
          /\ Len(result_queue') > Len(result_queue) =>
                \E w \in Procs : pc[w] = "put" /\ pc'[w] = "consuming"]_vars

\* The worker has acknowledged its third message and not yet put the tuple:
\* two tuples put, three messages acknowledged.
C16_Witness ==
    /\ threads = 1
    /\ pc[1] = "put"
    /\ Cardinality(acked) = 3
    /\ C16_Emitted = 2

\* C17: the reply to the request, the acknowledgment and the put of a worker
\* are enabled by the worker's place alone, whatever result_queue holds and
\* wherever main is: in particular the put is enabled whenever the worker is
\* at put (it never waits), and it takes the worker back to consuming (it
\* never fails); a
\* pass of the receive loop changes nothing of the broker or the workers; and
\* result_queue changes only by a put, which appends one tuple of that
\* worker, or by a receive, which takes the oldest tuple, counted once.
C17_AggregatorObservational ==
    /\ [](\A w \in Procs :
            /\ pc[w] = "put" <=> ENABLED put(w)
            /\ pc[w] = "basic_ack" <=> ENABLED basic_ack(w)
            /\ pc[w] = "posting" <=> ENABLED send_to_splunk_reply(w))
    /\ [][/\ received' # received =>
               /\ UNCHANGED <<brokerVars, workerVars>>
               /\ result_queue' = Tail(result_queue)
               /\ received'.msgs = received.msgs + 1
               /\ received'.sessions = received.sessions + Head(result_queue)[2]
          /\ \A w \in Procs :
               (pc[w] = "put" /\ pc'[w] # "put") =>
                  \/ /\ pc'[w] = "consuming"
                     /\ result_queue' = Append(result_queue, <<w, session_count[w]>>)
                  \/ /\ pc'[w] = "terminated"
                     /\ cause'[w] \in {"interrupt", "killed"}
          /\ result_queue' # result_queue =>
               \/ received' # received
               \/ \E w \in Procs : pc[w] = "put" /\ pc'[w] = "consuming"]_vars

\* Main is in its receive loop and has received nothing; the tuples of every
\* published message wait on result_queue, and the workers consume on.
C17_Witness ==
    /\ supPc = "loop"
    /\ received.msgs = 0
    /\ Len(result_queue) = MaxMsgs
    /\ acked = Published
    /\ \E w \in Procs : pc[w] = "consuming"

\* Every worker main started has ended.
C18_AllWorkersEnded == started # {} /\ \A p \in started : pc[p] = "terminated"

\* C18: main leaves its receive loop in the interrupt step only, with status
\* 1; the step in which a worker ends changes nothing of main or of its
\* totals; once every worker has ended and result_queue is empty, main is
\* still in the loop with no exit status, no pass of the loop is possible,
\* and no step but the interrupt changes its place, its status, its totals or
\* its reports.
C18_LoopEndsOnInterruptOnly ==
    /\ [](/\ supPc = "loop" => exitStatus = -1
          /\ (supPc = "loop" /\ C18_AllWorkersEnded /\ result_queue = <<>>)
                => ~ENABLED result_queue_get)
    /\ [][/\ (supPc = "loop" /\ supPc' # "loop") =>
               (supPc' = "exiting" /\ exitStatus' = EXIT_FAILURE)
          /\ (supPc = "loop" /\ \E w \in Procs : Alive(w) /\ pc'[w] = "terminated") =>
               UNCHANGED <<supVars, aggVars>>
          /\ (supPc = "loop" /\ C18_AllWorkersEnded /\ result_queue = <<>>) =>
               /\ UNCHANGED <<aggVars, workerVars>>
               /\ supPc' = "loop" => UNCHANGED supVars]_vars

\* The worker ended on a failure; main is still in its loop on an empty
\* result_queue with no exit status, more than 5 s after its last report.
C18_Witness ==
    /\ supPc = "loop"
    /\ C18_AllWorkersEnded
    /\ \E w \in started : cause[w] \in {"parse", "delivery"}
    /\ result_queue = <<>>
    /\ exitStatus = -1
    /\ clock - last_time > ReportInterval

=============================================================================
